---- MODULE Spec2Model ----
(***************************************************************************)
(* Model of livefs_edit: EditContext (context.py) and the driver main()    *)
(* (__main__.py).  One EditContext per behaviour; pc is the position of    *)
(* the driver.  Every call of run() may exit nonzero and raise.            *)
(***************************************************************************)
EXTENDS Integers, Sequences, FiniteSets, TLC

\* ---------------------------------------------------------------- bounds
MaxOps == 3          \* length of the driver's list of action calls
MaxOverlays == 2     \* add_overlay calls in the layering specification
MaxLowers == 2       \* length of a lowers list / nested list given to add_overlay

\* ---------------------------------------------------------------- inputs
Names == {"rootfs", "extra"}                         \* sub-filesystem names
SqFiles == {"etc/resolv.conf", "etc/motd", "data"}   \* files an action writes in new/<name>
IsoFiles == {"data"}                                 \* files an action writes in new/iso
DestKinds == {"null", "dir", "iso", "same"}          \* argv[1]

VARIABLES
    pc,                 \* position of main(): start, parse, actions, hooks, check, teardown, exit
    already_mounted,    \* main: os.path.isdir(isopath)
    destKind,           \* argv[1]: /dev/null, a directory, an image path, or isopath itself
    nops,               \* number of action calls made so far
    _mounts,            \* EditContext._mounts
    _squash_mounts,     \* keys of EditContext._squash_mounts
    _pre_repack_hooks,  \* EditContext._pre_repack_hooks
    _copy_on_teardown,  \* EditContext._copy_on_teardown
    _iso_overlay,       \* EditContext._iso_overlay
    overlays,           \* every add_overlay so far: the handle and the lowerdir given to mount
    live,               \* mountpoints currently mounted in the OS
    mountLog,           \* every mountpoint a mount command succeeded on, in the order mounted
    dirExists,          \* the scratch directory self.dir exists
    targetDirs,         \* names n for which the directory new/<n> exists
    upper,              \* upper[n]: entries of the upper area of the overlay of name n
    isoUpper,           \* entries of the upper area of the top-level overlay
    sysHooked,          \* names with the system-mount bundle set up
    hookq,              \* hooks the finalize loop still has to run
    ran,                \* hooks run by finalize, in order
    events,             \* external tools invoked by finalize and teardown, in order
    outcome,            \* what finalize reported
    exc,                \* the exception propagating out of main ("none" if none)
    firstErr,           \* where the first error was raised: mount_iso, parse, action, hook, finalize, teardown
    tdCalls,            \* number of teardown() calls
    destIso,            \* the image file xorriso writes at destpath
    srcReplaced,        \* main renamed destpath over isopath
    destDir,            \* what cp -aT delivered to the destination directory
    lastCall,           \* the last EditContext call made: its arguments and what it returned
    ntmp,               \* number of directories tmpdir() has allocated
    packed,             \* packed[n]: the upper areas mksquashfs packed for n, one per success
    written             \* <<t, p>>: an action wrote file p below the tree of t

vars == <<pc, already_mounted, destKind, nops, _mounts, _squash_mounts,
          _pre_repack_hooks, _copy_on_teardown, _iso_overlay, overlays, live,
          mountLog, dirExists, targetDirs, upper, isoUpper, sysHooked, hookq, ran, events,
          outcome, exc, firstErr, tdCalls, destIso, srcReplaced, destDir, lastCall, ntmp, packed, written>>

\* ---------------------------------------------------------------- helpers
Rev(s) == [i \in 1..Len(s) |-> s[Len(s) + 1 - i]]

RECURSIVE Flat(_)
Flat(ss) == IF ss = <<>> THEN <<>> ELSE Head(ss) \o Flat(Tail(ss))

\* list.remove(x): removes the first occurrence
RECURSIVE RemoveFirst(_, _)
RemoveFirst(s, x) ==
    IF s = <<>> THEN <<>>
    ELSE IF Head(s) = x THEN Tail(s)
    ELSE <<Head(s)>> \o RemoveFirst(Tail(s), x)

\* EditContext.p(): a path below the scratch directory
Path(b, n, r) == [base |-> b, name |-> n, rel |-> r]
External(p) == [base |-> "ext", name |-> p, rel |-> ""]
IsoOld == Path("old", "iso", "")
IsoNew == Path("new", "iso", "")
SquashOld(n) == Path("old", n, "")
SquashNew(n) == Path("new", n, "")
SquashFile(n) == Path("old", "iso", n)      \* old/iso/casper/<n>.squashfs
NoPath == Path("none", "", "")              \* no path returned

\* tempfile.mkdtemp(dir=.tmp): the k-th fresh directory
TmpNames == <<"t1", "t2", "t3", "t4", "t5", "t6", "t7", "t8", "t9", "t10", "t11", "t12">>
tmpdir(k) == Path(".tmp", TmpNames[k], "")

Mountpoint(dev, mp) == [t |-> "mnt", device |-> dev, mountpoint |-> mp]
OverlayMountpoint(lw, up, mp) == [t |-> "ovl", lowers |-> lw, upperdir |-> up, mountpoint |-> mp]
Str(p) == [t |-> "str", v |-> p]
List(items) == [t |-> "list", items |-> items]
None == [t |-> "none"]

\* ---------------------------------------------------------------- add_overlay
\* lowerdir_for with a union expanded to its upper followed by its lowers
RECURSIVE lowerdir_for_upper_first(_)
lowerdir_for_upper_first(lower) ==
    IF lower.t = "str" THEN <<lower.v>>
    ELSE IF lower.t = "mnt" THEN <<lower.mountpoint>>
    ELSE IF lower.t = "ovl"
         THEN lowerdir_for_upper_first(List(<<Str(lower.upperdir)>> \o lower.lowers))
    ELSE Flat(Rev([i \in 1..Len(lower.items) |-> lowerdir_for_upper_first(lower.items[i])]))

\* add_overlay.lowerdir_for: the lowerdir string, as the sequence of its
\* ':'-separated components
RECURSIVE lowerdir_for(_)
lowerdir_for(lower) ==
    IF lower.t = "str" THEN <<lower.v>>
    ELSE IF lower.t = "mnt" THEN <<lower.mountpoint>>
    ELSE IF lower.t = "ovl" THEN lowerdir_for(List(lower.lowers \o <<Str(lower.upperdir)>>))
    ELSE Flat(Rev([i \in 1..Len(lower.items) |-> lowerdir_for(lower.items[i])]))

\* add_overlay: the handle it returns and the lowerdir option it mounts with;
\* k directories have been allocated by tmpdir() before the call
add_overlay(lowers, mountpoint, k) ==
    LET lw == IF lowers.t = "list" THEN lowers.items ELSE <<lowers>>
        upperdir == tmpdir(k + 1)
        mp == IF mountpoint = None THEN tmpdir(k + 3) ELSE mountpoint
    IN  [handle   |-> OverlayMountpoint(lw, upperdir, mp),
         lowerdir |-> lowerdir_for(List(lw)),
         ntmp     |-> IF mountpoint = None THEN k + 3 ELSE k + 2]

\* ---------------------------------------------------------------- upper areas
SqPaths == {"etc", "etc/resolv.conf", "etc/resolv.conf.tmp", "etc/motd", "data"}
EmptySqUpper == [p \in SqPaths |-> "none"]
IsoPaths == IsoFiles \cup Names        \* a name n stands for casper/<n>.squashfs
EmptyIsoUpper == [p \in IsoPaths |-> "none"]

\* OverlayMountpoint.unchanged for a sub-filesystem overlay: os.listdir(upperdir) == []
unchanged(up) == up["etc"] = "none" /\ up["data"] = "none"

\* OverlayMountpoint.unchanged for the top-level overlay
iso_unchanged(up) == \A p \in IsoPaths : up[p] = "none"

\* ---------------------------------------------------------------- driver
\* run(): f numbers the command of an operation that exits nonzero (0: none);
\* a command that exits nonzero raises, and so does a failing os call
Raised(f) == f # 0

\* main without the finally block: an exception leaves the process at once
OnRaiseNoFinally == "exit"

\* main: where control goes when an exception is raised inside the try block
OnRaise == "teardown"

Init ==
    /\ pc = "start"
    /\ already_mounted \in BOOLEAN
    /\ destKind \in DestKinds
    /\ nops = 0
    /\ _mounts = <<>>
    /\ _squash_mounts = {}
    /\ _pre_repack_hooks = <<>>
    /\ _copy_on_teardown = "None"
    /\ _iso_overlay = None
    /\ overlays = <<>>
    /\ live = {}
    /\ mountLog = <<>>
    /\ dirExists = TRUE
    /\ targetDirs = {}
    /\ upper = [n \in Names |-> EmptySqUpper]
    /\ isoUpper = EmptyIsoUpper
    /\ sysHooked = {}
    /\ hookq = <<>>
    /\ ran = <<>>
    /\ events = <<>>
    /\ outcome = "none"
    /\ exc = "none"
    /\ firstErr = "none"
    /\ tdCalls = 0
    /\ destIso = "absent"
    /\ srcReplaced = FALSE
    /\ destDir = [copied |-> FALSE, src |-> FALSE, up |-> EmptyIsoUpper]
    /\ lastCall = [op |-> "none", name |-> "none", sysm |-> FALSE, arg |-> NoPath,
                   ret |-> NoPath, seq |-> 0]
    /\ ntmp = 0
    /\ packed = [n \in Names |-> <<>>]
    /\ written = {}

\* main line 47, EditContext.mount_iso; f = 1: the iso9660 mount fails,
\* f = 2: the overlay mount fails.  Both are raised outside the try block.
MountIso(f) ==
    /\ pc = "start"
    /\ f \in (IF already_mounted THEN {0, 2} ELSE {0, 1, 2})
    /\ LET isoMounted == ~already_mounted /\ f # 1
           mountpoint == Mountpoint(External("isopath"), IsoOld)
           ov == add_overlay(mountpoint, IsoNew, ntmp)
           m1 == IF isoMounted THEN Append(_mounts, IsoOld) ELSE _mounts
           l1 == IF isoMounted THEN live \cup {IsoOld} ELSE live
       IN  IF Raised(f) /\ f = 1
           THEN /\ pc' = "exit" /\ exc' = "MountError" /\ firstErr' = "mount_iso"
                /\ UNCHANGED <<_mounts, live, mountLog, _iso_overlay, overlays, ntmp>>
           ELSE IF Raised(f)
           THEN /\ pc' = "exit" /\ exc' = "MountError" /\ firstErr' = "mount_iso"
                /\ _mounts' = m1 /\ live' = l1 /\ ntmp' = ov.ntmp
                /\ mountLog' = IF isoMounted THEN Append(mountLog, IsoOld) ELSE mountLog
                /\ UNCHANGED <<_iso_overlay, overlays>>
           ELSE /\ pc' = "parse"
                /\ _mounts' = Append(m1, IsoNew) /\ live' = l1 \cup {IsoNew}
                /\ mountLog' = (IF isoMounted THEN Append(mountLog, IsoOld) ELSE mountLog)
                               \o <<IsoNew>>
                /\ _iso_overlay' = ov.handle
                /\ overlays' = Append(overlays, [handle |-> ov.handle, lowerdir |-> ov.lowerdir])
                /\ ntmp' = ov.ntmp
                /\ UNCHANGED <<exc, firstErr>>
    /\ UNCHANGED <<already_mounted, destKind, nops, _squash_mounts, _pre_repack_hooks,
                   _copy_on_teardown, dirExists, targetDirs, upper, isoUpper, sysHooked,
                   hookq, ran, events, outcome, tdCalls, destIso, srcReplaced, destDir,
                   lastCall, packed, written>>

\* main lines 49-62: the action list is loaded; a failure exits the process
\* (sys.exit(1), or an exception from open/yaml.load) before the try block
ParseActions(ok) ==
    /\ pc = "parse"
    /\ IF ok THEN pc' = "actions" /\ UNCHANGED <<exc, firstErr>>
             ELSE pc' = "exit" /\ exc' = "SystemExit" /\ firstErr' = "parse"
    /\ UNCHANGED <<already_mounted, destKind, nops, _mounts, _squash_mounts,
                   _pre_repack_hooks, _copy_on_teardown, _iso_overlay, overlays, live, mountLog,
                   dirExists, targetDirs, upper, isoUpper, sysHooked, hookq, ran, events,
                   outcome, tdCalls, destIso, srcReplaced, destDir, lastCall, ntmp, packed, written>>

\* ---------------------------------------------------------------- umount
\* umount that returns quietly when the mountpoint is not in _mounts
umount_absent_ignored(ms, lv, mountpoint, f) ==
    IF \E i \in DOMAIN ms : ms[i] = mountpoint
    THEN [mounts |-> RemoveFirst(ms, mountpoint), called |-> TRUE,
          live   |-> IF Raised(f) THEN lv ELSE lv \ {mountpoint},
          exc    |-> IF Raised(f) THEN "MountError" ELSE "none"]
    ELSE [mounts |-> ms, called |-> FALSE, live |-> lv, exc |-> "none"]

\* EditContext.umount on the stack ms with lv mounted; f = 1: the umount
\* command exits nonzero.  self._mounts.remove(mountpoint) raises ValueError
\* when the mountpoint is not in the list, and run() is then not reached;
\* otherwise the first occurrence is removed before umount is run.
\* called: the umount command was run.
umount(ms, lv, mountpoint, f) ==
    IF \E i \in DOMAIN ms : ms[i] = mountpoint
    THEN [mounts |-> RemoveFirst(ms, mountpoint), called |-> TRUE,
          live   |-> IF Raised(f) THEN lv ELSE lv \ {mountpoint},
          exc    |-> IF Raised(f) THEN "MountError" ELSE "none"]
    ELSE [mounts |-> ms, called |-> FALSE, live |-> lv, exc |-> "ValueError"]

\* ---------------------------------------------------------------- actions
\* add_sys_mounts: the bundle, in mount order
SysMounts == << [typ |-> "devtmpfs",   rel |-> "dev"],
                [typ |-> "devpts",     rel |-> "dev/pts"],
                [typ |-> "proc",       rel |-> "proc"],
                [typ |-> "sysfs",      rel |-> "sys"],
                [typ |-> "securityfs", rel |-> "sys/kernel/security"] >>
SysPath(n, i) == Path("new", n, SysMounts[i].rel)
NSys == Len(SysMounts)
\* the longest _mounts can get: old/iso, new/iso, and per name old/<n>, new/<n>, the bundle
MaxMounts == 2 + Cardinality(Names) * (NSys + 2)

\* the two hooks edit_squashfs and add_sys_mounts register
RepackHook(n) == [kind |-> "repack", name |-> n]
SysHook(n) == [kind |-> "sys", name |-> n]

\* add_sys_mounts lines 113-115 on the overlay of a sub-filesystem:
\* os.rename(resolv_conf, resolv_conf + '.tmp') copies the file up and leaves
\* a whiteout; shutil.copy then puts the host's file in its place
RenamedAside(up) ==
    [up EXCEPT !["etc"] = "dir",
               !["etc/resolv.conf.tmp"] = IF up["etc/resolv.conf"] \in {"none", "whiteout"}
                                          THEN "orig" ELSE up["etc/resolv.conf"],
               !["etc/resolv.conf"] = "whiteout"]
HostCopied(up) == [up EXCEPT !["etc/resolv.conf"] = "host"]

\* edit_squashfs without the early return for an existing target
target_exists_never(n) == FALSE

\* edit_squashfs line 170: os.path.exists(target)
target_exists(n) == n \in targetDirs

\* edit_squashfs registering its repack hook after add_sys_mounts has
\* registered the bundle hook
HooksRegisteredBundleFirst(hooks, n, ovOk, sysOk) ==
    LET h1 == IF sysOk THEN Append(hooks, SysHook(n)) ELSE hooks
    IN  IF ovOk THEN Append(h1, RepackHook(n)) ELSE h1

\* edit_squashfs lines 189-192 and add_sys_mounts line 122: the hooks after the
\* call; ovOk: the overlay was mounted, sysOk: add_sys_mounts ran to its end
HooksRegistered(hooks, n, ovOk, sysOk) ==
    LET h1 == IF ovOk THEN Append(hooks, RepackHook(n)) ELSE hooks
    IN  IF sysOk THEN Append(h1, SysHook(n)) ELSE h1

\* edit_squashfs(name, add_sys_mounts=sysm), called by an action.
\* f is the call that fails (0: none): 1 the squashfs mount, 2 the overlay
\* mount, 2+i the i-th mount of the bundle, NSys+3 os.rename, NSys+4 shutil.copy.
edit_squashfs(n, sysm, f) ==
    LET cached == n \in _squash_mounts
        exists == target_exists(n)
        sqOk   == cached \/ f # 1
        build  == sqOk /\ ~exists                 \* add_overlay is called
        ovOk   == build /\ f # 2                  \* the overlay is mounted
        nsys   == IF ~(ovOk /\ sysm) THEN 0
                  ELSE IF f \in 3..(2 + NSys) THEN f - 3 ELSE NSys
        lower  == Mountpoint(SquashFile(n), SquashOld(n))
        ov     == add_overlay(lower, SquashNew(n), ntmp)
        m1     == IF ~cached /\ f # 1 THEN Append(_mounts, SquashOld(n)) ELSE _mounts
        m2     == IF ovOk THEN Append(m1, SquashNew(n)) ELSE m1
        l1     == IF ~cached /\ f # 1 THEN live \cup {SquashOld(n)} ELSE live
        l2     == IF ovOk THEN l1 \cup {SquashNew(n)} ELSE l1
        renamed == ovOk /\ sysm /\ f \in {0, NSys + 4}
        copied  == ovOk /\ sysm /\ f = 0
        u1     == IF renamed THEN RenamedAside(upper[n]) ELSE upper[n]
        u2     == IF copied THEN HostCopied(u1) ELSE u1
    IN  /\ f \in {0} \cup (IF cached THEN {} ELSE {1})
                     \cup (IF exists THEN {} ELSE {2})
                     \cup (IF exists \/ ~sysm THEN {} ELSE 3..(4 + NSys))
        /\ _squash_mounts' = IF ~cached /\ f # 1 THEN _squash_mounts \cup {n} ELSE _squash_mounts
        /\ targetDirs' = IF build THEN targetDirs \cup {n} ELSE targetDirs
        /\ ntmp' = IF build THEN ov.ntmp ELSE ntmp
        /\ overlays' = IF ovOk THEN Append(overlays, [handle |-> ov.handle, lowerdir |-> ov.lowerdir])
                       ELSE overlays
        /\ _mounts' = m2 \o [i \in 1..nsys |-> SysPath(n, i)]
        /\ live' = l2 \cup {SysPath(n, i) : i \in 1..nsys}
        /\ mountLog' = mountLog \o SubSeq(_mounts', Len(_mounts) + 1, Len(_mounts'))
        /\ upper' = [upper EXCEPT ![n] = u2]
        /\ _pre_repack_hooks' = HooksRegistered(_pre_repack_hooks, n, ovOk, copied)
        /\ sysHooked' = IF copied THEN sysHooked \cup {n} ELSE sysHooked
        /\ lastCall' = [op |-> "edit_squashfs", name |-> n, sysm |-> sysm, arg |-> NoPath,
                        ret |-> IF f = 0 THEN SquashNew(n) ELSE NoPath, seq |-> nops + 1]
        /\ IF ~Raised(f) THEN pc' = pc /\ UNCHANGED <<exc, firstErr>>
           ELSE pc' = OnRaise /\ exc' = (IF f > NSys + 2 THEN "OSError" ELSE "MountError")
                /\ firstErr' = "action"

\* an action of the driver's list calls edit_squashfs
EditSquashfs(n, sysm, f) ==
    /\ pc = "actions" /\ nops < MaxOps
    /\ nops' = nops + 1
    /\ edit_squashfs(n, sysm, f)
    /\ UNCHANGED <<already_mounted, destKind, _copy_on_teardown, _iso_overlay, dirExists,
                   isoUpper, hookq, ran, events, outcome, tdCalls, destIso, srcReplaced,
                   destDir, packed, written>>

\* an action writes a file below the top-level merged tree (t = "iso") or
\* below the path edit_squashfs returned for t; the write lands in the upper area
WriteFile(t, p) ==
    /\ pc = "actions" /\ nops < MaxOps
    /\ nops' = nops + 1
    /\ IF t = "iso"
       THEN /\ p \in IsoFiles /\ IsoNew \in live
            /\ isoUpper' = [isoUpper EXCEPT ![p] = "action"]
            /\ UNCHANGED upper
       ELSE /\ t \in Names /\ p \in SqFiles /\ SquashNew(t) \in live
            /\ upper' = [upper EXCEPT ![t] =
                           [@ EXCEPT ![p] = "action",
                                     !["etc"] = IF p = "data" THEN @ ELSE "dir"]]
            /\ UNCHANGED isoUpper
    /\ written' = written \cup {<<t, p>>}
    /\ lastCall' = [op |-> "write", name |-> t, sysm |-> FALSE, arg |-> NoPath,
                    ret |-> NoPath, seq |-> nops + 1]
    /\ UNCHANGED <<pc, already_mounted, destKind, _mounts, _squash_mounts, _pre_repack_hooks,
                   _copy_on_teardown, _iso_overlay, overlays, live, mountLog, dirExists, targetDirs,
                   sysHooked, hookq, ran, events, outcome, exc, firstErr, tdCalls, destIso,
                   srcReplaced, destDir, ntmp, packed>>

\* an action raises an error of its own; main lines 64-66 and 75
ActionRaises ==
    /\ pc = "actions" /\ nops < MaxOps
    /\ nops' = nops + 1
    /\ pc' = OnRaise /\ exc' = "ActionError" /\ firstErr' = "action"
    /\ lastCall' = [op |-> "raise", name |-> "none", sysm |-> FALSE, arg |-> NoPath,
                    ret |-> NoPath, seq |-> nops + 1]
    /\ UNCHANGED <<already_mounted, destKind, _mounts, _squash_mounts, _pre_repack_hooks,
                   _copy_on_teardown, _iso_overlay, overlays, live, mountLog, dirExists, targetDirs,
                   upper, isoUpper, sysHooked, hookq, ran, events, outcome, tdCalls, destIso,
                   srcReplaced, destDir, ntmp, packed, written>>

\* ---------------------------------------------------------------- finalize
\* main lines 68-72: which repack method runs
Mode == IF destKind = "dir" \/ (destKind = "same" /\ already_mounted) THEN "mounted" ELSE "iso"
inplace == destKind = "same" /\ ~already_mounted

\* the hook loop without reversed()
HookOrderForward(hooks) == hooks

\* repack_iso / repack_in_mounted: the order the hook loop visits the hooks in
HookOrder(hooks) == Rev(hooks)

\* mounts of the OS at or below mountpoint m
Beneath(p, m) ==
    /\ p.base = m.base /\ p.name = m.name
    /\ \/ m.rel = "" \/ p.rel = m.rel
       \/ <<m.rel, p.rel>> \in {<<"dev", "dev/pts">>, <<"sys", "sys/kernel/security">>}
Below(m, lv) == {p \in lv : Beneath(p, m) /\ p # m}

Event(tool, arg) == [tool |-> tool, arg |-> arg, below |-> Below(arg, live)]

\* main lines 68-72 up to the start of the hook loop; with destpath None
\* nothing is repacked and the finally block is next
BeginFinalize ==
    /\ pc = "actions"
    /\ IF destKind = "null"
       THEN pc' = "teardown" /\ UNCHANGED hookq
       ELSE pc' = "hooks" /\ hookq' = HookOrder(_pre_repack_hooks)
    /\ UNCHANGED <<already_mounted, destKind, nops, _mounts, _squash_mounts, _pre_repack_hooks,
                   _copy_on_teardown, _iso_overlay, overlays, live, mountLog, dirExists, targetDirs,
                   upper, isoUpper, sysHooked, ran, events, outcome, exc, firstErr, tdCalls,
                   destIso, srcReplaced, destDir, lastCall, ntmp, packed, written>>

\* a hook loop that goes on to the next hook when a hook has raised
AfterHookSuppressed(raised) == "hooks"

\* the hook loop of repack_iso / repack_in_mounted calls hook() with no
\* handler around it: where main is after a hook returned or raised
AfterHook(raised) == IF raised THEN OnRaise ELSE "hooks"

\* add_sys_mounts._pre_repack line 120: os.rename(resolv_conf + '.tmp', resolv_conf)
RenamedBack(up) ==
    [up EXCEPT !["etc/resolv.conf"] = up["etc/resolv.conf.tmp"],
               !["etc/resolv.conf.tmp"] = "none"]

\* add_sys_mounts._pre_repack for name n.  f = j in 1..NSys: the j-th umount
\* fails, f = NSys+1: os.rename fails, f = 0: nothing fails.
\* EditContext.umount removes the mountpoint from _mounts before it runs umount.
SysPreRepack(n, f) ==
    LET order == [j \in 1..NSys |-> SysPath(n, NSys + 1 - j)]    \* reversed(mnts)
        RECURSIVE Loop(_, _, _, _)
        Loop(ms, lv, evs, j) ==
            IF j > NSys THEN [mounts |-> ms, live |-> lv, events |-> evs, exc |-> "none"]
            ELSE LET r  == umount(ms, lv, order[j], IF f = j THEN 1 ELSE 0)
                     e  == [tool |-> "umount", arg |-> order[j], below |-> Below(order[j], lv)]
                     ev == IF r.called THEN Append(evs, e) ELSE evs
                 IN  IF r.exc # "none"
                     THEN [mounts |-> r.mounts, live |-> r.live, events |-> ev, exc |-> r.exc]
                     ELSE Loop(r.mounts, r.live, ev, j + 1)
        u == Loop(_mounts, live, <<>>, 1)
        raised == u.exc # "none" \/ f = NSys + 1
    IN  /\ f \in 0..(NSys + 1)
        /\ _mounts' = u.mounts
        /\ live' = u.live
        /\ UNCHANGED mountLog
        /\ events' = events \o u.events
        /\ upper' = IF raised THEN upper
                    ELSE [upper EXCEPT ![n] = RenamedBack(upper[n])]
        /\ pc' = AfterHook(raised)
        /\ IF ~raised THEN UNCHANGED <<exc, firstErr>>
           ELSE exc' = (IF u.exc # "none" THEN u.exc ELSE "OSError") /\ firstErr' = "hook"
        /\ UNCHANGED <<isoUpper, packed>>

\* _pre_repack without the removal of the resolver artifact
ResolvKept(up) == up

\* edit_squashfs._pre_repack lines 177-181: unlink upper/etc/resolv.conf, then
\* rmdir upper/etc; the first OSError ends the block
ResolvRemoved(up) ==
    IF up["etc/resolv.conf"] = "none" THEN up
    ELSE LET u1 == [up EXCEPT !["etc/resolv.conf"] = "none"]
         IN  IF u1["etc/resolv.conf.tmp"] = "none" /\ u1["etc/motd"] = "none"
             THEN [u1 EXCEPT !["etc"] = "none"]
             ELSE u1

\* edit_squashfs._pre_repack: where mksquashfs writes the new image, as an
\* entry of the top-level upper area
new_squash(n) == n

\* _pre_repack packing to a path outside the top-level merged tree
SquashWrittenElsewhere(up, n, ok) == up

\* edit_squashfs._pre_repack lines 186-187 on the top-level upper area:
\* os.unlink(new_squash) leaves a whiteout, mksquashfs writes the new image
SquashReplaced(up, n, ok) == [up EXCEPT ![new_squash(n)] = IF ok THEN "squash" ELSE "whiteout"]

\* edit_squashfs._pre_repack for name n.  f = 1: os.unlink(new_squash) fails,
\* f = 2: mksquashfs exits nonzero, f = 0: nothing fails.
SquashPreRepack(n, f) ==
    LET u1 == ResolvRemoved(upper[n])
    IN  /\ upper' = [upper EXCEPT ![n] = u1]
        /\ IF unchanged(u1)
           THEN /\ f = 0
                /\ pc' = AfterHook(Raised(f))
                /\ UNCHANGED <<isoUpper, events, packed, exc, firstErr>>
           ELSE /\ f \in 0..2
                /\ isoUpper' = IF f = 1 THEN isoUpper
                               ELSE SquashReplaced(isoUpper, n, f = 0)
                /\ events' = IF f = 1 THEN events
                             ELSE Append(events, Event("mksquashfs", SquashNew(n)))
                /\ packed' = IF f = 0 THEN [packed EXCEPT ![n] = Append(@, u1)] ELSE packed
                /\ pc' = AfterHook(Raised(f))
                /\ IF ~Raised(f) THEN UNCHANGED <<exc, firstErr>>
                   ELSE exc' = (IF f = 1 THEN "OSError" ELSE "RepackError") /\ firstErr' = "hook"
        /\ UNCHANGED <<_mounts, live, mountLog>>

\* one iteration of the hook loop of repack_iso / repack_in_mounted
RunHook(f) ==
    /\ pc = "hooks" /\ hookq # <<>>
    /\ LET h == Head(hookq)
       IN  /\ ran' = Append(ran, h)
           /\ hookq' = Tail(hookq)
           /\ IF h.kind = "sys" THEN SysPreRepack(h.name, f) ELSE SquashPreRepack(h.name, f)
    /\ UNCHANGED <<already_mounted, destKind, nops, _squash_mounts, _pre_repack_hooks,
                   _copy_on_teardown, _iso_overlay, overlays, dirExists, targetDirs, sysHooked,
                   outcome, tdCalls, destIso, srcReplaced, destDir, lastCall, ntmp, written>>

\* repack_iso after the hook loop, then main lines 73-74.  f = 1: the xorriso
\* report fails, f = 2: xorriso -as mkisofs fails and may leave a partial file.
RepackIso(f, partial) ==
    /\ pc = "hooks" /\ hookq = <<>> /\ Mode = "iso"
    /\ IF iso_unchanged(isoUpper)
       THEN /\ f = 0 /\ ~partial
            /\ outcome' = "nochanges"
            /\ UNCHANGED <<events, destIso>>
       ELSE /\ f \in 0..2 /\ (partial => f = 2)
            /\ outcome' = IF f = 0 THEN "repacked" ELSE outcome
            /\ events' = events \o <<Event("xorriso-report", External("isopath"))>>
                                \o (IF f = 1 THEN <<>> ELSE <<Event("xorriso-mkisofs", IsoNew)>>)
            /\ destIso' = IF f = 0 THEN "complete" ELSE IF partial THEN "partial" ELSE destIso
    /\ LET renameFails == f = 0 /\ inplace /\ destIso' = "absent"
       IN  /\ srcReplaced' = (f = 0 /\ inplace /\ ~renameFails)
           /\ IF Raised(f) THEN pc' = OnRaise /\ exc' = "RepackError" /\ firstErr' = "finalize"
              ELSE IF renameFails THEN pc' = OnRaise /\ exc' = "OSError" /\ firstErr' = "finalize"
              ELSE pc' = "teardown" /\ UNCHANGED <<exc, firstErr>>
    /\ UNCHANGED <<already_mounted, destKind, nops, _mounts, _squash_mounts, _pre_repack_hooks,
                   _copy_on_teardown, _iso_overlay, overlays, live, mountLog, dirExists, targetDirs,
                   upper, isoUpper, sysHooked, hookq, ran, tdCalls, destDir, lastCall, ntmp,
                   packed, written>>

\* repack_in_mounted after the hook loop
RepackInMounted ==
    /\ pc = "hooks" /\ hookq = <<>> /\ Mode = "mounted"
    /\ pc' = "teardown"
    /\ IF iso_unchanged(isoUpper)
       THEN outcome' = "nochanges" /\ UNCHANGED _copy_on_teardown
       ELSE outcome' = "copy_deferred" /\ _copy_on_teardown' = "destpath"
    /\ UNCHANGED <<already_mounted, destKind, nops, _mounts, _squash_mounts, _pre_repack_hooks,
                   _iso_overlay, overlays, live, mountLog, dirExists, targetDirs, upper, isoUpper,
                   sysHooked, hookq, ran, events, exc, firstErr, tdCalls, destIso, srcReplaced,
                   destDir, lastCall, ntmp, packed, written>>

\* ---------------------------------------------------------------- teardown
\* teardown lines 197-199 over ms = reversed(self._mounts): each entry is
\* detached by mount --make-rprivate followed by umount -R, which detaches
\* the mount and every mount below it.  The commands of the k-th entry fail
\* (0: none) and raise.  Result: the mounts left and the entries detached.
RECURSIVE UnmountAll(_, _, _, _)
UnmountAll(ms, lv, k, acc) ==
    IF ms = <<>> THEN [live |-> lv, events |-> acc, failed |-> Raised(0)]
    ELSE LET m == Head(ms)
             e == [tool |-> "umount-R", arg |-> m, below |-> Below(m, lv)]
         IN  IF k = 1
             THEN [live |-> lv, failed |-> Raised(k), events |-> acc]
             ELSE UnmountAll(Tail(ms), {p \in lv : ~Beneath(p, m)}, k - 1, Append(acc, e))

\* what cp -aT reads at new/iso: the merged tree while the overlay is
\* mounted there, the bare mountpoint directory once it is not
TreeAt(lv, up) ==
    IF IsoNew \in lv THEN [copied |-> TRUE, src |-> TRUE, up |-> up]
    ELSE [copied |-> TRUE, src |-> FALSE, up |-> EmptyIsoUpper]

\* EditContext.teardown, called from the finally block of main.
\* f in 1..Len(_mounts): the commands of the f-th entry fail;
\* f = Len(_mounts)+1: cp fails.
Teardown(f) ==
    /\ pc = "teardown"
    /\ f \in 0..(Len(_mounts) + (IF _copy_on_teardown # "None" THEN 1 ELSE 0))
    /\ LET r  == UnmountAll(Rev(_mounts), live, f, <<>>)
           cp == ~r.failed /\ _copy_on_teardown # "None"
           cpFails == cp /\ f = Len(_mounts) + 1
           failed  == r.failed \/ cpFails
       IN  /\ live' = r.live
           /\ UNCHANGED mountLog
           /\ events' = events \o r.events
                        \o (IF cp THEN <<[tool |-> "cp", arg |-> IsoNew,
                                          below |-> Below(IsoNew, r.live)]>> ELSE <<>>)
           /\ destDir' = IF cp /\ ~cpFails THEN TreeAt(r.live, isoUpper) ELSE destDir
           /\ dirExists' = IF failed THEN dirExists ELSE FALSE
           /\ exc' = IF failed THEN "TeardownError" ELSE exc
           /\ firstErr' = IF failed /\ firstErr = "none" THEN "teardown" ELSE firstErr
    /\ tdCalls' = tdCalls + 1
    /\ pc' = "exit"
    /\ UNCHANGED <<already_mounted, destKind, nops, _mounts, _squash_mounts, _pre_repack_hooks,
                   _copy_on_teardown, _iso_overlay, overlays, targetDirs, upper, isoUpper,
                   sysHooked, hookq, ran, outcome, destIso, srcReplaced, lastCall, ntmp,
                   packed, written>>

\* ---------------------------------------------------------------- specification
Next ==
    \/ \E f \in 0..2 : MountIso(f)
    \/ \E ok \in BOOLEAN : ParseActions(ok)
    \/ \E n \in Names, sysm \in BOOLEAN, f \in 0..(NSys + 4) : EditSquashfs(n, sysm, f)
    \/ \E t \in Names \cup {"iso"}, p \in SqFiles \cup IsoFiles : WriteFile(t, p)
    \/ ActionRaises
    \/ BeginFinalize
    \/ \E f \in 0..(NSys + 1) : RunHook(f)
    \/ \E f \in 0..2, partial \in BOOLEAN : RepackIso(f, partial)
    \/ RepackInMounted
    \/ \E f \in 0..(MaxMounts + 1) : Teardown(f)

Spec == Init /\ [][Next]_vars

\* ---------------------------------------------------------------- layering
\* A caller of the EditContext API stacks overlays with add_overlay(lowers),
\* building lowers from a path string, a Mountpoint, the OverlayMountpoint
\* it got back last, and lists of these.  No list names a layer twice (the
\* kernel refuses overlapping layers).
BaseLowers == {Str(External("P")), Mountpoint(External("dev"), External("M"))}

SeqsUpTo(S, n) ==
    {s \in UNION {[1..k -> S] : k \in 1..n} : \A i, j \in DOMAIN s : i # j => s[i] # s[j]}

LowersChoices ==
    LET top   == IF overlays = <<>> THEN {} ELSE {overlays[Len(overlays)].handle}
        atoms == BaseLowers \cup top
    IN  atoms
        \cup {List(s) : s \in SeqsUpTo(atoms, MaxLowers)}
        \cup UNION {{List(<<x, List(s)>>), List(<<List(s), x>>)} :
                        <<x, s>> \in {xs \in BaseLowers \X SeqsUpTo(atoms, MaxLowers) :
                                         \A i \in DOMAIN xs[2] : xs[2][i] # xs[1]}}

InitOverlay ==
    /\ Init
    /\ already_mounted = FALSE
    /\ destKind = "null"

\* add_overlay(lowers) with no mountpoint given; ok: the overlay mount succeeds
AddOverlay(lowers, ok) ==
    /\ pc = "start"
    /\ Len(overlays) < MaxOverlays /\ ntmp <= 3 * (MaxOverlays - 1)
    /\ LET ov == add_overlay(lowers, None, ntmp)
       IN  /\ ntmp' = ov.ntmp
           /\ IF ok
              THEN /\ overlays' = Append(overlays, [handle |-> ov.handle, lowerdir |-> ov.lowerdir])
                   /\ _mounts' = Append(_mounts, ov.handle.mountpoint)
                   /\ live' = live \cup {ov.handle.mountpoint}
                   /\ mountLog' = Append(mountLog, ov.handle.mountpoint)
                   /\ UNCHANGED <<exc, firstErr>>
              ELSE /\ exc' = "MountError" /\ firstErr' = "add_overlay"
                   /\ UNCHANGED <<overlays, _mounts, live, mountLog>>
    /\ UNCHANGED <<pc, already_mounted, destKind, nops, _squash_mounts, _pre_repack_hooks,
                   _copy_on_teardown, _iso_overlay, dirExists, targetDirs, upper, isoUpper,
                   sysHooked, hookq, ran, events, outcome, tdCalls, destIso, srcReplaced,
                   destDir, lastCall, packed, written>>

NextOverlay == \E lowers \in LowersChoices, ok \in BOOLEAN : AddOverlay(lowers, ok)

SpecOverlay == InitOverlay /\ [][NextOverlay]_vars

\* ---------------------------------------------------------------- mount stack
\* A caller of the EditContext API mounts with add_mount and unmounts with
\* umount, at mountpoints of its own choosing; it mounts only where nothing
\* is mounted yet.  MaxOps bounds the number of calls.
MountChoices == {External("M"), External("N"), Path("new", "iso", "")}

InitMounts ==
    /\ Init
    /\ already_mounted = FALSE
    /\ destKind = "null"

\* add_mount(typ, src, mountpoint); ok: the mount command succeeds
AddMount(mountpoint, ok) ==
    /\ pc = "start" /\ nops < MaxOps
    /\ mountpoint \notin live
    /\ nops' = nops + 1
    /\ IF ok
       THEN /\ _mounts' = Append(_mounts, mountpoint)
            /\ live' = live \cup {mountpoint}
            /\ mountLog' = Append(mountLog, mountpoint)
            /\ exc' = "none"
       ELSE /\ exc' = "MountError"
            /\ UNCHANGED <<_mounts, live, mountLog>>
    /\ lastCall' = [op |-> "add_mount", name |-> "none", sysm |-> FALSE, arg |-> mountpoint,
                    ret |-> IF ok THEN mountpoint ELSE NoPath, seq |-> nops + 1]
    /\ UNCHANGED <<pc, already_mounted, destKind, _squash_mounts, _pre_repack_hooks,
                   _copy_on_teardown, _iso_overlay, overlays, dirExists, targetDirs, upper,
                   isoUpper, sysHooked, hookq, ran, events, outcome, firstErr, tdCalls,
                   destIso, srcReplaced, destDir, ntmp, packed, written>>

\* umount(mountpoint); f = 1: the umount command exits nonzero
Umount(mountpoint, f) ==
    /\ pc = "start" /\ nops < MaxOps
    /\ nops' = nops + 1
    /\ LET r == umount(_mounts, live, mountpoint, f)
       IN  /\ f \in (IF r.called THEN {0, 1} ELSE {0})
           /\ _mounts' = r.mounts
           /\ live' = r.live
           /\ UNCHANGED mountLog
           /\ exc' = r.exc
           /\ events' = IF r.called THEN Append(events, Event("umount", mountpoint)) ELSE events
    /\ lastCall' = [op |-> "umount", name |-> "none", sysm |-> FALSE, arg |-> mountpoint,
                    ret |-> NoPath, seq |-> nops + 1]
    /\ UNCHANGED <<pc, already_mounted, destKind, _squash_mounts, _pre_repack_hooks,
                   _copy_on_teardown, _iso_overlay, overlays, dirExists, targetDirs, upper,
                   isoUpper, sysHooked, hookq, ran, outcome, firstErr, tdCalls, destIso,
                   srcReplaced, destDir, ntmp, packed, written>>

NextMounts ==
    \/ \E mountpoint \in MountChoices, ok \in BOOLEAN : AddMount(mountpoint, ok)
    \/ \E mountpoint \in MountChoices, f \in 0..1 : Umount(mountpoint, f)

SpecMounts == InitMounts /\ [][NextMounts]_vars

\* ---------------------------------------------------------------- properties
IsPrefix(a, b) == Len(a) <= Len(b) /\ \A i \in 1..Len(a) : a[i] = b[i]
Count(s, x) == Cardinality({i \in DOMAIN s : s[i] = x})
ToolEvents(tool) == {i \in DOMAIN events : events[i].tool = tool}
PackerEvents(n) == {i \in ToolEvents("mksquashfs") : events[i].arg = SquashNew(n)}
OverlayOf(n) == {i \in DOMAIN overlays : overlays[i].handle.mountpoint = SquashNew(n)}
WrittenIn(t) == {w \in written : w[1] = t}

\* C1: after teardown() has been called, no entry of the mount stack is
\* mounted any more and the scratch directory no longer exists, whatever
\* succeeded or failed before.  (teardown never pops self._mounts, so the
\* stack is read through what is still mounted.)
C1_TeardownEmptiesStack ==
    tdCalls > 0 => (\A i \in DOMAIN _mounts : _mounts[i] \notin live) /\ live = {} /\ ~dirExists

\* C2: when an action or the finalize step raised, teardown() has run exactly
\* once by the time the process exits, and the process exits with an
\* exception; teardown never runs twice.
C2_TeardownOnError ==
    /\ tdCalls <= 1
    /\ (pc = "exit" /\ firstErr \in {"action", "hook", "finalize"}) => (tdCalls = 1 /\ exc # "none")

C2_Witness ==
    pc = "exit" /\ firstErr = "finalize" /\ exc = "RepackError" /\ tdCalls = 1 /\ ~dirExists

\* C3: finalize runs the hooks in exactly the reverse of their registration
\* order, one after the other: what has run is always a prefix of the
\* reversed registration list, and the whole of it once the loop is over.
C3_HooksReverseOrder ==
    /\ IsPrefix(ran, Rev(_pre_repack_hooks))
    /\ pc = "hooks" => ran \o hookq = Rev(_pre_repack_hooks)
    /\ outcome # "none" => ran = Rev(_pre_repack_hooks)

C3_Witness ==
    /\ outcome # "none" /\ Len(ran) >= 3
    /\ ran[1].kind = "sys" /\ ran[1] = _pre_repack_hooks[Len(_pre_repack_hooks)]

\* C4: per name there is at most one read-only mount, one overlay, one repack
\* hook and one bundle hook, ...
C4_AtMostOnce ==
    \A n \in Names :
        /\ Count(_mounts, SquashOld(n)) <= 1
        /\ Count(_mounts, SquashNew(n)) <= 1
        /\ Cardinality(OverlayOf(n)) <= 1
        /\ Count(_pre_repack_hooks, RepackHook(n)) <= 1
        /\ Count(_pre_repack_hooks, SysHook(n)) <= 1

\* ... and a call of edit_squashfs for a name whose overlay an earlier call
\* built returns the path that overlay was mounted at, mounts nothing and
\* registers no hook.
C4_RepeatStep ==
    (/\ lastCall'.seq # lastCall.seq
     /\ lastCall'.op = "edit_squashfs"
     /\ OverlayOf(lastCall'.name) # {})
    => /\ _mounts' = _mounts /\ live' = live /\ overlays' = overlays
       /\ _pre_repack_hooks' = _pre_repack_hooks
       /\ \A i \in OverlayOf(lastCall'.name) : lastCall'.ret = overlays[i].handle.mountpoint

\* C4: repeated edit_squashfs(name) calls return the same writable path, and
\* every call after the first mounts nothing and registers nothing.
C4_Idempotent == []C4_AtMostOnce /\ [][C4_RepeatStep]_vars

C4_Witness ==
    /\ pc = "actions" /\ nops = 2 /\ written = {}
    /\ lastCall.op = "edit_squashfs" /\ lastCall.name = "rootfs" /\ lastCall.sysm
    /\ lastCall.ret = SquashNew("rootfs")
    /\ Cardinality(OverlayOf("rootfs")) = 1 /\ OverlayOf("extra") = {}
    /\ _pre_repack_hooks = <<RepackHook("rootfs")>>

\* C5 (state part): while the top-level upper area is empty, neither the
\* packer nor xorriso has been invoked, nothing was produced and no
\* destination is recorded for the copy.
C5_NoToolWhileUnchanged ==
    iso_unchanged(isoUpper) =>
        /\ ToolEvents("mksquashfs") = {} /\ ToolEvents("xorriso-report") = {}
        /\ ToolEvents("xorriso-mkisofs") = {}
        /\ \A n \in Names : packed[n] = <<>>
        /\ _copy_on_teardown = "None" /\ destIso = "absent"

\* C5 (step part): the check after the hook loop, finding the top-level
\* overlay unchanged, reports the no-op and invokes nothing.
C5_CheckStep ==
    (pc = "hooks" /\ hookq = <<>> /\ iso_unchanged(isoUpper) /\ pc' # "hooks")
    => /\ outcome' = "nochanges" /\ events' = events
       /\ _copy_on_teardown' = "None" /\ destIso' = "absent"

\* C5: a finalize run that finds the top-level overlay unchanged after the
\* hooks has invoked no external packing or authoring tool, records no
\* copy destination and reports a no-op.
C5_UnchangedIsNoOp ==
    /\ [](C5_NoToolWhileUnchanged /\ (outcome = "nochanges" => iso_unchanged(isoUpper)))
    /\ [][C5_CheckStep]_vars

C5_Witness ==
    /\ outcome = "nochanges" /\ Len(ran) >= 2 /\ events # <<>>
    /\ iso_unchanged(isoUpper) /\ pc = "teardown"

\* C6: edit_squashfs with the bundle and no write by any action: the packer
\* is never invoked, nothing is written to the destination, and a finalize
\* that completes reports "no changes" with every upper area empty.
C6_NoWriteNoChange ==
    written = {} =>
        /\ ToolEvents("mksquashfs") = {} /\ ToolEvents("xorriso-mkisofs") = {}
        /\ destIso = "absent" /\ ~destDir.copied /\ ~srcReplaced
        /\ (outcome # "none" =>
               /\ outcome = "nochanges"
               /\ iso_unchanged(isoUpper)
               /\ \A n \in Names : unchanged(upper[n]))

C6_Witness ==
    /\ written = {} /\ outcome = "nochanges" /\ destKind = "iso" /\ ~already_mounted
    /\ _pre_repack_hooks = <<RepackHook("rootfs"), SysHook("rootfs")>>
    /\ ran = <<SysHook("rootfs"), RepackHook("rootfs")>>
    /\ upper["rootfs"] = EmptySqUpper

\* C7: in packed-image mode a finalize that completes has invoked the packer
\* exactly once for every name an action wrote a file into and never for
\* another name, and has invoked the authoring tool exactly once, after the
\* hooks, on a tree holding the regenerated images.
C7_WrittenIsPackedOnce ==
    (Mode = "iso" /\ outcome # "none") =>
        \A n \in Names :
            IF WrittenIn(n) # {}
            THEN /\ Cardinality(PackerEvents(n)) = 1 /\ Len(packed[n]) = 1
                 /\ isoUpper[new_squash(n)] = "squash"
                 /\ Cardinality(ToolEvents("xorriso-mkisofs")) = 1
                 /\ \A i \in PackerEvents(n), j \in ToolEvents("xorriso-mkisofs") : i < j
            ELSE PackerEvents(n) = {}

\* the lowers of section 3, flattened: a union expands to its own lowers
\* followed by its upper area
RECURSIVE Flatten(_)
Flatten(lower) ==
    LET RECURSIVE All(_)
        All(ls) == IF ls = <<>> THEN <<>> ELSE Flatten(Head(ls)) \o All(Tail(ls))
    IN  IF lower.t = "str" THEN <<lower.v>>
        ELSE IF lower.t = "mnt" THEN <<lower.mountpoint>>
        ELSE IF lower.t = "ovl" THEN All(lower.lowers) \o <<lower.upperdir>>
        ELSE All(lower.items)

\* C8: the lower search order add_overlay mounts with is the reverse of the
\* recursively flattened lowers.
C8_LowerdirIsReversedFlattening ==
    \A i \in DOMAIN overlays :
        overlays[i].lowerdir = Rev(Flatten(List(overlays[i].handle.lowers)))

\* L1 over P, L2 over [L1]: L2 is mounted with [L1.upper, P]
C8_Witness ==
    \E i, j \in DOMAIN overlays :
        /\ overlays[j].handle.lowers = <<Str(External("P"))>>
        /\ overlays[i].handle.lowers = <<overlays[j].handle>>
        /\ overlays[i].lowerdir = <<overlays[j].handle.upperdir, External("P")>>

\* C9: the bundle hook of a name has run before the repack hook of that
\* name; whenever the packer is invoked no mount is live below the tree it
\* packs, and what it packs has the resolver configuration restored.
C9_BundleGoneBeforeRepack ==
    /\ \A i \in DOMAIN ran :
          (ran[i].kind = "repack" /\ ran[i].name \in sysHooked)
          => \E j \in 1..(i - 1) : ran[j] = SysHook(ran[i].name)
    /\ \A i \in ToolEvents("mksquashfs") : events[i].below = {}
    /\ \A n \in Names : \A i \in DOMAIN packed[n] :
          /\ packed[n][i]["etc/resolv.conf.tmp"] = "none"
          /\ packed[n][i]["etc/resolv.conf"] \in {"none", "orig"}

C9_Witness ==
    /\ "rootfs" \in sysHooked /\ "extra" \in sysHooked
    /\ PackerEvents("rootfs") # {}
    /\ ran = <<SysHook("extra"), RepackHook("extra"), SysHook("rootfs"), RepackHook("rootfs")>>

\* C10: in directory mode, when finalize recorded the destination and
\* teardown returned, the destination holds the source content and every
\* change made to the top-level merged tree.
C10_CopyDeliversMergedTree ==
    (pc = "exit" /\ _copy_on_teardown # "None" /\ exc = "none")
    => destDir.copied /\ destDir.src /\ destDir.up = isoUpper

\* C11: whenever edit_squashfs(name, add_sys_mounts=True) has just returned
\* its path, the five mounts of the bundle are mounted below new/<name>, and
\* exactly one bundle hook is registered for name, after name's repack hook;
\* whatever was called before.
C11_BundleOnSuccessfulReturn ==
    (pc = "actions" /\ lastCall.op = "edit_squashfs" /\ lastCall.sysm /\ lastCall.ret # NoPath)
    => LET n == lastCall.name
       IN  /\ \A i \in 1..NSys : SysPath(n, i) \in live
           /\ Count(_pre_repack_hooks, SysHook(n)) = 1
           /\ \E i, j \in DOMAIN _pre_repack_hooks :
                 /\ i < j
                 /\ _pre_repack_hooks[i] = RepackHook(n)
                 /\ _pre_repack_hooks[j] = SysHook(n)

\* C12 (step): a call umount(mountpoint) with the mountpoint not on the
\* stack raises, runs no umount command and leaves the stack as it was; with
\* the mountpoint on the stack it takes exactly that entry off, runs the
\* umount command exactly once, and raises iff the command failed, the
\* mount then being left as it was.
C12_UmountStep ==
    (lastCall'.seq # lastCall.seq /\ lastCall'.op = "umount")
    => LET mp == lastCall'.arg
       IN  IF Count(_mounts, mp) = 0
           THEN /\ exc' # "none"
                /\ events' = events /\ _mounts' = _mounts /\ live' = live
           ELSE /\ \E i \in DOMAIN _mounts :
                      /\ _mounts[i] = mp
                      /\ _mounts' = SubSeq(_mounts, 1, i - 1) \o SubSeq(_mounts, i + 1, Len(_mounts))
                /\ Len(events') = Len(events) + 1
                /\ events'[Len(events')].tool = "umount" /\ events'[Len(events')].arg = mp
                /\ SubSeq(events', 1, Len(events)) = events
                /\ \/ exc' = "none" /\ live' = live \ {mp}
                   \/ exc' = "MountError" /\ live' = live

\* C12: umount of a mountpoint that is not on the mount stack is an error
\* with no effect; umount of one that is on it removes that entry and runs
\* the OS unmount once, whose failure propagates without a retry.
C12_UmountContract == [][C12_UmountStep]_vars

\* a failed umount took the mountpoint off the stack; unmounting it again
\* is refused although the mount is still there
C12_Witness ==
    /\ lastCall.op = "umount" /\ exc = "ValueError"
    /\ Len(events) = 1 /\ events[1].arg = lastCall.arg
    /\ lastCall.arg \in live /\ _mounts = <<>>

\* C13: in packed-image mode, when a packing or authoring tool has failed,
\* the path the user named as destination holds no partial image: with the
\* destination equal to the source the source has not been replaced, with
\* another destination nothing incomplete is at that path.
C13_NoPartialAtDestination ==
    (Mode = "iso" /\ exc = "RepackError")
    => IF inplace THEN ~srcReplaced ELSE destIso # "partial"

\* C14: with the destination equal to the source image path, the source is
\* replaced only by a complete image the authoring tool wrote; and when
\* finalize found no changes, finalize raised nothing and the source has
\* not been replaced.
C14_InPlaceReplace ==
    inplace =>
        /\ srcReplaced => (destIso = "complete" /\ outcome = "repacked")
        /\ outcome = "nochanges" => (firstErr # "finalize" /\ ~srcReplaced)

\* position of the mount now at p in the order the mounts were established
MountPos(p) ==
    IF \E i \in DOMAIN mountLog : mountLog[i] = p
    THEN CHOOSE i \in DOMAIN mountLog :
            mountLog[i] = p /\ \A j \in DOMAIN mountLog : mountLog[j] = p => j <= i
    ELSE 0

\* what is still mounted when teardown comes to the i-th entry of
\* reversed(_mounts), the entries before it having been detached
RECURSIVE LiveAt(_)
LiveAt(i) ==
    IF i = 1 THEN live
    ELSE {p \in LiveAt(i - 1) : ~Beneath(p, Rev(_mounts)[i - 1])}

\* C15 (step): a call of teardown detaches the entries of the stack in the
\* reverse of their registration order; no entry is detached while a mount
\* established after it, and not beneath it, is still mounted; cp runs iff
\* a destination was recorded (by repack_in_mounted having found changes)
\* and every entry has been detached, and before nothing else; the scratch
\* directory is deleted last, after the copy where one is due.
C15_TeardownStep ==
    (pc = "teardown" /\ pc' = "exit")
    => LET new   == SubSeq(events', Len(events) + 1, Len(events'))
           k     == Cardinality({i \in DOMAIN new : new[i].tool = "umount-R"})
           order == Rev(_mounts)
           cp    == \E i \in DOMAIN new : new[i].tool = "cp"
           due   == _copy_on_teardown # "None"
       IN  /\ k <= Len(order)
           /\ \A i \in 1..k : new[i].tool = "umount-R" /\ new[i].arg = order[i]
           /\ \A i \in 1..k : \A p \in LiveAt(i) :
                 MountPos(p) > MountPos(order[i]) => Beneath(p, order[i])
           /\ due => (Mode = "mounted" /\ outcome = "copy_deferred" /\ ~iso_unchanged(isoUpper))
           /\ cp <=> (due /\ k = Len(order))
           /\ cp => /\ Len(new) = k + 1 /\ new[k + 1].tool = "cp"
                    /\ \A i \in DOMAIN _mounts : _mounts[i] \notin LiveAt(k + 1)
                    /\ dirExists
           /\ ~dirExists' => (k = Len(order) /\ (due => destDir'.copied))
           /\ (k = Len(order) /\ ~due) => ~dirExists'

\* C15: teardown unmounts the stack in strict reverse registration order
\* (never detaching a mount while a later one is live), then copies iff a
\* destination was recorded, and only then deletes the scratch directory.
C15_TeardownOrder == [][C15_TeardownStep]_vars

\* the errors a hook raises: a failed umount of the bundle, a failed os
\* call, the packer exiting nonzero
HookErrors == {"MountError", "OSError", "RepackError"}

\* C16 (state): once a hook has raised, main is in or past its finally
\* block with the hook's error, the check of the top-level overlay was not
\* made, xorriso was not invoked, nothing was written to the destination
\* and no destination is recorded for the copy.
C16_AbortedByHook ==
    firstErr = "hook" =>
        /\ pc \in {"teardown", "exit"}
        /\ ran # <<>>
        /\ exc \in (IF pc = "teardown" THEN HookErrors ELSE HookErrors \cup {"TeardownError"})
        /\ outcome = "none"
        /\ ToolEvents("xorriso-report") = {} /\ ToolEvents("xorriso-mkisofs") = {}
        /\ _copy_on_teardown = "None" /\ destIso = "absent" /\ ~srcReplaced /\ ~destDir.copied

\* C16 (step): the step in which a hook raises leaves the hook loop with
\* that error, and no hook runs after a hook has raised.
C16_HookStep ==
    /\ (firstErr # "hook" /\ firstErr' = "hook")
       => (pc = "hooks" /\ pc' = "teardown" /\ exc' \in HookErrors /\ Len(ran') = Len(ran) + 1)
    /\ firstErr = "hook"
       => (ran' = ran /\ hookq' = hookq /\ firstErr' = "hook"
           /\ ToolEvents("mksquashfs")' = ToolEvents("mksquashfs"))

\* C16: a hook that raises during finalize ends finalize with its error:
\* no further hook, no unchanged check, no authoring tool, no copy recorded.
C16_HookErrorAbortsFinalize == []C16_AbortedByHook /\ [][C16_HookStep]_vars

\* the packer failed for "extra" with the hook of "rootfs" still to run and
\* the top-level upper area already changed
C16_Witness ==
    /\ pc = "exit" /\ firstErr = "hook" /\ exc = "RepackError" /\ Mode = "mounted"
    /\ ran = <<RepackHook("extra")>> /\ hookq = <<RepackHook("rootfs")>>
    /\ ~iso_unchanged(isoUpper) /\ _copy_on_teardown = "None"

\* C17: for a name set up without the bundle, once its repack hook has run
\* every file an action wrote below new/<name> is still in the upper area,
\* so the overlay is not unchanged, and it is in whatever the packer packed.
C17_ActionWritesSurvive ==
    \A n \in Names \ sysHooked :
        (\E i \in DOMAIN ran : ran[i] = RepackHook(n))
        => \A w \in WrittenIn(n) :
              /\ upper[n][w[2]] = "action"
              /\ ~unchanged(upper[n])
              /\ \A i \in DOMAIN packed[n] : packed[n][i][w[2]] = "action"

\* C18: until teardown is called, the mountpoints on the mount stack are
\* exactly the mountpoints that are mounted, each of them once.
C18_StackTracksLiveMounts ==
    tdCalls = 0 =>
        /\ {_mounts[i] : i \in DOMAIN _mounts} = live
        /\ \A i, j \in DOMAIN _mounts : _mounts[i] = _mounts[j] => i = j

\* C19: when main exits after a mount of mount_iso succeeded, teardown has
\* been called, and unless teardown itself failed no mount is left and the
\* scratch directory is gone.
C19_TeardownOnEveryExit ==
    (pc = "exit" /\ mountLog # <<>>)
    => /\ tdCalls = 1
       /\ exc # "TeardownError" => (live = {} /\ ~dirExists)

====
